---------------------------- MODULE Spec2Model ----------------------------
(***************************************************************************)
(* FRI prover and verifier of shared_math/fri.rs (Fri::prove, Fri::commit, *)
(* Fri::sample_indices, Fri::verify, Fri::num_rounds) over a small prime   *)
(* field with a cubic extension, a collision-free (term) hash, a Merkle    *)
(* tree and a proof stream.                                                *)
(***************************************************************************)
EXTENDS Integers, Sequences, FiniteSets, TLC

VARIABLES
    domain_length,              \* Fri.domain.length
    expansion_factor,           \* Fri.expansion_factor
    colinearity_checks_count,   \* Fri.colinearity_checks_count
    poly,                       \* coefficients of the polynomial the codeword evaluates
    codeword,                   \* argument of prove
    items,                      \* ProofStream: the enqueued messages
    read_index,                 \* ProofStream: number of messages dequeued
    pc,                         \* position of the prove / verify calls
    tamper,                     \* what was done to the transcript between prove and verify
    tampered_at,                \* the position of the altered bundle among the messages, or 0
    codewords,                  \* prove: the codewords of the layers returned by commit
    p_alphas,                   \* commit: the challenges alpha drawn, in order
    merkle_trees,               \* prove: the Merkle trees of the layers returned by commit
    top_level_indices,          \* prove: its return value
    roots,                      \* verify: roots
    alphas,                     \* verify: alphas
    last_codeword,              \* verify: last_codeword as dequeued
    a_indices,                  \* verify: a_indices
    a_values,                   \* verify: a_values
    b_indices,                  \* verify: b_indices
    current_domain_len,         \* verify: current_domain_len
    r,                          \* verify: loop variable of the query loop
    codeword_evaluations,       \* verify: codeword_evaluations
    result,                     \* verify: "none" while running, "Ok" or the error
    rounds,                     \* get_rounds_count_test: last value of fri.num_rounds()
    si_seed,                    \* sample_indices: its argument seed
    si_last_indices,            \* sample_indices: last_indices after the first loop
    si_indices,                 \* sample_indices: its return value
    domain_offset,              \* FriDomain.offset of the domain of x_values_test
    pol,                        \* x_values_test: coefficients of the polynomial
    x_values,                   \* x_values_test: domain.b_domain_values()
    pol_values,                 \* x_values_test: the values of the polynomial on the domain
    interpolant,                \* x_values_test: the interpolant of the values
    db,                         \* DatabaseVector.db: the stored value of every stored key
    returned,                   \* DatabaseVector: what the last call returned
    debug_assertions            \* whether the build keeps debug_assert!

vars == <<domain_length, expansion_factor, colinearity_checks_count, poly, codeword,
          items, read_index, pc, tamper, tampered_at, codewords, p_alphas,
          merkle_trees, top_level_indices,
          roots, alphas, last_codeword, a_indices, a_values, b_indices,
          current_domain_len, r, codeword_evaluations, result, rounds,
          si_seed, si_last_indices, si_indices, domain_offset, pol, x_values, pol_values, interpolant,
          db, returned, debug_assertions>>

-----------------------------------------------------------------------------
(* Bounds of the model *)

\* largest log2 of the domain length in the prove/verify runs
MaxLogN == 3
\* largest colinearity_checks_count in the prove/verify runs
MaxChecks == 7
\* largest colinearity_checks_count set by get_rounds_count_test
MaxTableChecks == 65
\* largest log2 of the domain length when sample_indices is called by itself
MaxSampleLogN == 6
\* largest colinearity_checks_count when sample_indices is called by itself
MaxSampleChecks == 8
\* the seeds of sample_indices called by itself are the digests of 0 .. MaxSeed
MaxSeed == 7
\* largest log2 of the order of the domain of x_values_test
MaxDomainLogN == 3
\* largest number of coefficients of the polynomials of x_values_test
MaxPolLen == 4
\* largest length a DatabaseVector is pushed to
MaxDbLen == 2
\* largest number of pairs given to batch_set
MaxBatch == 2
\* largest log2 of the domain length num_rounds is called with by itself
MaxParamLogN == 8

-----------------------------------------------------------------------------
(* BFieldElement: the prime field, here of 193 elements (192 = 2^6 * 3) *)

P == 193

\* a generator of the multiplicative group (BFieldElement::generator)
Generator == 5

BAdd(a, b) == (a + b) % P
BSub(a, b) == (a - b + P) % P
BMul(a, b) == (a * b) % P

RECURSIVE mod_pow_u32(_, _)
mod_pow_u32(a, e) ==
    IF e = 0 THEN 1
    ELSE LET h == mod_pow_u32(a, e \div 2)
             s == BMul(h, h)
         IN IF e % 2 = 1 THEN BMul(s, a) ELSE s

BInv(a) == mod_pow_u32(a, P - 2)

\* BFieldElement::primitive_root_of_unity(n), n a power of two dividing P - 1
primitive_root_of_unity(n) == mod_pow_u32(Generator, (P - 1) \div n)

-----------------------------------------------------------------------------
(* XFieldElement: B[z] / (z^3 - z + 1), an element is <<c0, c1, c2>> *)

XZero == <<0, 0, 0>>
XOne == <<1, 0, 0>>

lift(b) == <<b, 0, 0>>

XAdd(a, b) == <<BAdd(a[1], b[1]), BAdd(a[2], b[2]), BAdd(a[3], b[3])>>
XSub(a, b) == <<BSub(a[1], b[1]), BSub(a[2], b[2]), BSub(a[3], b[3])>>

XMul(a, b) ==
    LET c0 == a[1] * b[1]
        c1 == a[1] * b[2] + a[2] * b[1]
        c2 == a[1] * b[3] + a[2] * b[2] + a[3] * b[1]
        c3 == a[2] * b[3] + a[3] * b[2]
        c4 == a[3] * b[3]
    IN <<(c0 + (P - 1) * c3) % P,
         (c1 + c3 + (P - 1) * c4) % P,
         (c2 + c4) % P>>

\* BFieldElement * XFieldElement
BXMul(b, x) == <<BMul(b, x[1]), BMul(b, x[2]), BMul(b, x[3])>>

\* XFieldElement::inverse: the first column of the inverse of the matrix of the
\* multiplication by a in the basis 1, z, z^2 (columns a, a*z, a*z^2)
XInv(a) ==
    LET u == XMul(a, <<0, 1, 0>>)
        v == XMul(a, <<0, 0, 1>>)
        c1 == (u[2] * v[3] + (P - 1) * ((u[3] * v[2]) % P)) % P
        c2 == (a[3] * v[2] + (P - 1) * ((a[2] * v[3]) % P)) % P
        c3 == (a[2] * u[3] + (P - 1) * ((a[3] * u[2]) % P)) % P
        det == (a[1] * c1 + u[1] * c2 + v[1] * c3) % P
        d_inv == BInv(det)
    IN <<BMul(c1, d_inv), BMul(c2, d_inv), BMul(c3, d_inv)>>

XDiv(a, b) == XMul(a, XInv(b))

-----------------------------------------------------------------------------
(* other.rs: log_2_ceil, log_2_floor *)

RECURSIVE log_2_floor(_)
log_2_floor(x) == IF x <= 1 THEN 0 ELSE 1 + log_2_floor(x \div 2)

Pow2(e) == 2 ^ e

log_2_ceil(x) ==
    LET f == log_2_floor(x)
    IN IF Pow2(f) = x THEN f ELSE f + 1

-----------------------------------------------------------------------------
(* Fri::num_rounds *)

\* (a as f64 / b as f64).ceil() for small positive integers
CeilDiv(a, b) == (a + b - 1) \div b

\* num_rounds with the quotient of checks by expansion rounded down
num_rounds_floor(length, expansion, checks) ==
    LET max_degree == (length \div expansion) - 1
        rounds_count == log_2_ceil(max_degree + 1) % 256
        num_missed_rounds == log_2_ceil(checks \div expansion) % 256
    IN IF expansion < checks
       THEN <<(rounds_count - num_missed_rounds + 256) % 256,
              Pow2(num_missed_rounds) - 1>>
       ELSE <<rounds_count, 0>>

\* num_rounds with max_degree taken as length / expansion
num_rounds_degree(length, expansion, checks) ==
    LET max_degree == length \div expansion
        rounds_count == log_2_ceil(max_degree + 1) % 256
        num_missed_rounds == log_2_ceil(CeilDiv(checks, expansion)) % 256
    IN IF expansion < checks
       THEN <<(rounds_count - num_missed_rounds + 256) % 256,
              Pow2(num_missed_rounds) - 1>>
       ELSE <<rounds_count, 0>>

\* num_rounds with the missed rounds taken from checks, not from checks / expansion
num_rounds_unscaled(length, expansion, checks) ==
    LET max_degree == (length \div expansion) - 1
        rounds_count == log_2_ceil(max_degree + 1) % 256
        num_missed_rounds == log_2_ceil(checks) % 256
    IN IF expansion < checks
       THEN <<(rounds_count - num_missed_rounds + 256) % 256,
              Pow2(num_missed_rounds) - 1>>
       ELSE <<rounds_count, 0>>

\* num_rounds with max_degree_of_last_round taken as the number of missed rounds
num_rounds_missed(length, expansion, checks) ==
    LET max_degree == (length \div expansion) - 1
        rounds_count == log_2_ceil(max_degree + 1) % 256
        num_missed_rounds == log_2_ceil(CeilDiv(checks, expansion)) % 256
    IN IF expansion < checks
       THEN <<(rounds_count - num_missed_rounds + 256) % 256, num_missed_rounds>>
       ELSE <<rounds_count, 0>>

num_rounds(length, expansion, checks) ==
    LET max_degree == (length \div expansion) - 1
        rounds_count == log_2_ceil(max_degree + 1) % 256
        num_missed_rounds == log_2_ceil(CeilDiv(checks, expansion)) % 256
    IN IF expansion < checks
       THEN <<(rounds_count - num_missed_rounds + 256) % 256,
              Pow2(num_missed_rounds) - 1>>
       ELSE <<rounds_count, 0>>

-----------------------------------------------------------------------------
(* Polynomial<XFieldElement>: a sequence of coefficients, lowest first *)

RECURSIVE Horner(_, _, _)
Horner(coefficients, x, k) ==
    IF k > Len(coefficients) THEN XZero
    ELSE XAdd(coefficients[k], XMul(x, Horner(coefficients, x, k + 1)))

\* Polynomial::evaluate
evaluate(coefficients, x) == Horner(coefficients, x, 1)

RECURSIVE HighestNonZero(_, _)
HighestNonZero(coefficients, k) ==
    IF k = 0 THEN 0
    ELSE IF coefficients[k] # XZero THEN k
    ELSE HighestNonZero(coefficients, k - 1)

\* Polynomial::degree, -1 for the zero polynomial
degree(coefficients) == HighestNonZero(coefficients, Len(coefficients)) - 1

\* Polynomial::get_colinear_y: the y at p2_x of the line through p0 and p1
get_colinear_y(p0, p1, p2_x) ==
    LET dy == XSub(p0[2], p1[2])
        dx == XSub(p0[1], p1[1])
        p2_y_times_dx == XAdd(XMul(dy, XSub(p2_x, p0[1])), XMul(dx, p0[2]))
    IN XDiv(p2_y_times_dx, dx)

\* FriDomain::b_domain_value
b_domain_value(offset, omega, index) == BMul(mod_pow_u32(omega, index), offset)

\* FriDomain::x_evaluate: the values of the polynomial on the coset offset * <omega>
x_evaluate(offset, omega, length, polynomial) ==
    [i \in 1..length |->
        evaluate(polynomial, lift(b_domain_value(offset, omega, i - 1)))]

RECURSIVE InttSum(_, _, _, _)
InttSum(values, omega_inv, k, j) ==
    IF j > Len(values) THEN XZero
    ELSE XAdd(BXMul(mod_pow_u32(omega_inv, (j - 1) * k), values[j]),
              InttSum(values, omega_inv, k, j + 1))

\* ntt::intt over a domain of 2^log_2_of_n points generated by omega
intt(values, omega, log_2_of_n) ==
    LET n == Pow2(log_2_of_n)
        n_inv == BInv(n % P)
        omega_inv == BInv(omega)
    IN [k \in 1..n |-> BXMul(n_inv, InttSum(values, omega_inv, k - 1, 1))]

\* CyclicGroupGenerator::get_cyclic_group_elements(None): 1, g, g^2, ... until 1 recurs
RECURSIVE CyclicFrom(_, _, _)
CyclicFrom(g, cur, acc) ==
    LET next == BMul(cur, g)
    IN IF next = 1 THEN Append(acc, cur) ELSE CyclicFrom(g, next, Append(acc, cur))

get_cyclic_group_elements(g) == CyclicFrom(g, 1, <<>>)

-----------------------------------------------------------------------------
(* AlgebraicHasher: a digest is the term of what was hashed, so that two    *)
(* digests are equal exactly when their inputs are (no collisions)          *)

RECURSIVE Flatten(_, _, _)
Flatten(ss, lo, hi) ==
    IF lo > hi THEN <<>>
    ELSE IF lo = hi THEN ss[lo]
    ELSE LET mid == (lo + hi) \div 2
         IN Flatten(ss, lo, mid) \o Flatten(ss, mid + 1, hi)

Concat(ss) == Flatten(ss, 1, Len(ss))

hash_slice(sequence) == <<Len(sequence)>> \o sequence

MixModulus == P * P * P

RECURSIVE MixRange(_, _, _)
MixRange(d, lo, hi) ==
    IF lo > hi THEN 0
    ELSE IF lo = hi THEN ((lo * lo + 3 * lo + 1) * (d[lo] + 1)) % MixModulus
    ELSE LET mid == (lo + hi) \div 2
         IN (MixRange(d, lo, mid) + MixRange(d, mid + 1, hi)) % MixModulus

\* the number a digest is read as when an index or a field element is drawn from it
Mix(d) == MixRange(d, 1, Len(d))

\* AlgebraicHasher::sample_index
sample_index(hash, max) == Mix(hash) % max

\* AlgebraicHasher::sample_index_not_power_of_two
sample_index_not_power_of_two(hash, max) == Mix(hash) % max

\* XFieldElement::sample
XSample(digest) ==
    LET m == Mix(digest)
    IN <<m % P, (m \div P) % P, (m \div (P * P)) % P>>

-----------------------------------------------------------------------------
(* MerkleTree: the sequence of its levels, leaves first, the root last *)

RECURSIVE BuildLevels(_)
BuildLevels(level) ==
    IF Len(level) <= 1 THEN <<level>>
    ELSE <<level>> \o
         BuildLevels([i \in 1..(Len(level) \div 2) |->
                        hash_slice(level[2 * i - 1] \o level[2 * i])])

from_digests(digests) == BuildLevels(digests)

get_root(mt) == mt[Len(mt)][1]

\* the sibling digests of leaf `index` (counted from 0), from the leaf level up
AuthPath(mt, index) ==
    [k \in 1..(Len(mt) - 1) |->
        LET node == index \div Pow2(k - 1)
        IN mt[k][(IF node % 2 = 0 THEN node + 1 ELSE node - 1) + 1]]

get_authentication_structure(mt, indices) ==
    [j \in 1..Len(indices) |-> AuthPath(mt, indices[j])]

RECURSIVE RootFromPath(_, _, _, _)
RootFromPath(index, path, node, k) ==
    IF k > Len(path) THEN node
    ELSE LET pos == index \div Pow2(k - 1)
             parent == IF pos % 2 = 0 THEN hash_slice(node \o path[k])
                       ELSE hash_slice(path[k] \o node)
         IN RootFromPath(index, path, parent, k + 1)

verify_authentication_structure(root, indices, path_digest_pairs) ==
    /\ Len(indices) = Len(path_digest_pairs)
    /\ \A j \in 1..Len(indices) :
          RootFromPath(indices[j], path_digest_pairs[j][1], path_digest_pairs[j][2], 1)
            = root

\* the leaf digests of a codeword: H::hash_slice(&x.to_sequence()) for each element
LeafDigests(values) == [i \in 1..Len(values) |-> hash_slice(values[i])]

-----------------------------------------------------------------------------
(* ProofStream: the messages in order and the number already dequeued *)

DigestItem(d) == [kind |-> "digest", body |-> d]
CodewordItem(c) == [kind |-> "codeword", body |-> c]
AuthItem(pairs) == [kind |-> "auth", body |-> pairs]

\* the serialization of a message, as the Fiat-Shamir hash absorbs it
to_sequence(item) ==
    IF item.kind = "digest" THEN item.body
    ELSE IF item.kind = "codeword" THEN <<Len(item.body)>> \o Concat(item.body)
    ELSE <<Len(item.body)>> \o
         Concat([j \in 1..Len(item.body) |->
                   <<Len(item.body[j][1])>> \o Concat(item.body[j][1]) \o item.body[j][2]])

\* the digest of the first `upto` messages
fiat_shamir(stream, upto) ==
    hash_slice(Concat([k \in 1..upto |-> to_sequence(stream[k])]))

\* ProofStream::prover_fiat_shamir: over everything enqueued
prover_fiat_shamir(stream) == fiat_shamir(stream, Len(stream))

\* ProofStream::verifier_fiat_shamir: over everything dequeued
verifier_fiat_shamir(stream, read) == fiat_shamir(stream, read)

-----------------------------------------------------------------------------
(* The Fri object: get_x_field_fri_test_object *)

\* Fri.domain.offset
Offset == 7

\* Fri.domain.omega
Omega == primitive_root_of_unity(domain_length)

\* self.num_rounds() of the Fri object
NumRounds == num_rounds(domain_length, expansion_factor, colinearity_checks_count)

-----------------------------------------------------------------------------
(* Fri::sample_indices *)

RemoveAt(s, k) == [i \in 1..(Len(s) - 1) |-> IF i < k THEN s[i] ELSE s[i + 1]]

\* the first loop taking the last element out of the pool instead of the drawn one
RECURSIVE DrawLastIndices_pop(_, _, _, _, _)
DrawLastIndices_pop(seed, remaining_last_round_exponents, counter, count, last_indices) ==
    IF counter = count THEN last_indices
    ELSE DrawLastIndices_pop(seed,
             RemoveAt(remaining_last_round_exponents, Len(remaining_last_round_exponents)),
             counter + 1, count,
             Append(last_indices,
                    remaining_last_round_exponents[
                        sample_index_not_power_of_two(
                            hash_slice(seed \o <<counter>>),
                            Len(remaining_last_round_exponents)) + 1]))

\* the first loop: colinearity_checks_count draws without replacement
RECURSIVE DrawLastIndices(_, _, _, _, _)
DrawLastIndices(seed, remaining_last_round_exponents, counter, count, last_indices) ==
    IF counter = count THEN last_indices
    ELSE LET hash == hash_slice(seed \o <<counter>>)
             index == sample_index_not_power_of_two(
                          hash, Len(remaining_last_round_exponents))
         IN DrawLastIndices(seed,
                RemoveAt(remaining_last_round_exponents, index + 1),
                counter + 1, count,
                Append(last_indices, remaining_last_round_exponents[index + 1]))

\* the second loop adding a quarter of the codeword length instead of half of it
RECURSIVE LiftIndices_quarter(_, _, _, _, _, _)
LiftIndices_quarter(seed, indices, i, rounds_count, last_codeword_length, counter) ==
    IF i >= rounds_count THEN indices
    ELSE LiftIndices_quarter(seed,
             [j \in 1..Len(indices) |->
                 IF sample_index(hash_slice(seed \o <<counter + j - 1>>), 2) = 0
                 THEN indices[j] + (last_codeword_length * Pow2(i)) \div 4
                 ELSE indices[j]],
             i + 1, rounds_count, last_codeword_length, counter + Len(indices))

\* the second loop running for i in 1..=num_rounds
RECURSIVE LiftIndices_inclusive(_, _, _, _, _, _)
LiftIndices_inclusive(seed, indices, i, rounds_count, last_codeword_length, counter) ==
    IF i > rounds_count THEN indices
    ELSE LiftIndices_inclusive(seed,
             [j \in 1..Len(indices) |->
                 IF sample_index(hash_slice(seed \o <<counter + j - 1>>), 2) = 0
                 THEN indices[j] + (last_codeword_length * Pow2(i)) \div 2
                 ELSE indices[j]],
             i + 1, rounds_count, last_codeword_length, counter + Len(indices))

\* the second loop: for i in 1..num_rounds
RECURSIVE LiftIndices(_, _, _, _, _, _)
LiftIndices(seed, indices, i, rounds_count, last_codeword_length, counter) ==
    IF i >= rounds_count THEN indices
    ELSE LET codeword_length == last_codeword_length * Pow2(i)
             new_indices ==
                 [j \in 1..Len(indices) |->
                    LET hash == hash_slice(seed \o <<counter + j - 1>>)
                        reduce_modulo == sample_index(hash, 2) = 0
                    IN IF reduce_modulo
                       THEN indices[j] + codeword_length \div 2
                       ELSE indices[j]]
         IN LiftIndices(seed, new_indices, i + 1, rounds_count,
                        last_codeword_length, counter + Len(indices))

sample_indices(seed, length, expansion, checks) ==
    LET rounds_count == num_rounds(length, expansion, checks)[1]
        last_codeword_length == length \div Pow2(rounds_count)
        last_indices ==
            DrawLastIndices(seed, [i \in 1..last_codeword_length |-> i - 1],
                            0, checks, <<>>)
    IN LiftIndices(seed, last_indices, 1, rounds_count, last_codeword_length, checks)

-----------------------------------------------------------------------------
(* Fri::commit *)

\* BFieldElement::batch_inversion
batch_inversion(xs) == [i \in 1..Len(xs) |-> BInv(xs[i])]

\* one round of the loop: the folded codeword
FoldCodeword(codeword_local, generator, offset, alpha) ==
    LET n == Len(codeword_local)
        two_inv == XDiv(XOne, XAdd(XOne, XOne))
        group == get_cyclic_group_elements(generator)
        x_offset == [i \in 1..Len(group) |-> BMul(group[i], offset)]
        x_offset_inverses == batch_inversion(x_offset)
    IN [i \in 1..(n \div 2) |->
          XMul(two_inv,
               XAdd(XMul(XAdd(XOne, BXMul(x_offset_inverses[i], alpha)),
                         codeword_local[i]),
                    XMul(XSub(XOne, BXMul(x_offset_inverses[i], alpha)),
                         codeword_local[n \div 2 + i])))]

\* one iteration of the loop on the state of commit's local variables
CommitRound(local) ==
    LET challenge == prover_fiat_shamir(local.stream)
        alpha == XSample(challenge)
        folded == FoldCodeword(local.codeword_local, local.generator, local.offset, alpha)
        tree == from_digests(LeafDigests(folded))
    IN [generator |-> BMul(local.generator, local.generator),
        offset |-> BMul(local.offset, local.offset),
        codeword_local |-> folded,
        stream |-> Append(local.stream, DigestItem(get_root(tree))),
        layers |-> Append(local.layers, <<folded, tree>>),
        alphas |-> Append(local.alphas, alpha)]

\* the loop of commit running for one round more: for _ in 0..=num_rounds
RECURSIVE CommitRounds_inclusive(_, _, _)
CommitRounds_inclusive(k, rounds_count, local) ==
    IF k > rounds_count THEN local
    ELSE CommitRounds_inclusive(k + 1, rounds_count, CommitRound(local))

\* for _ in 0..num_rounds
RECURSIVE CommitRounds(_, _, _)
CommitRounds(k, rounds_count, local) ==
    IF k >= rounds_count THEN local
    ELSE CommitRounds(k + 1, rounds_count, CommitRound(local))

commit(input, stream, length, expansion, checks, omega, offset) ==
    LET tree == from_digests(LeafDigests(input))
        done == CommitRounds(0, num_rounds(length, expansion, checks)[1],
                    [generator |-> omega,
                     offset |-> offset,
                     codeword_local |-> input,
                     stream |-> Append(stream, DigestItem(get_root(tree))),
                     layers |-> << <<input, tree>> >>,
                     alphas |-> <<>>])
    IN [stream |-> Append(done.stream, CodewordItem(done.codeword_local)),
        layers |-> done.layers,
        alphas |-> done.alphas]

-----------------------------------------------------------------------------
(* Fri::enqueue_auth_pairs, Fri::dequeue_and_authenticate *)

enqueue_auth_pairs(indices, values, merkle_tree, stream) ==
    LET paths == get_authentication_structure(merkle_tree, indices)
        value_ap_pairs == [j \in 1..Len(indices) |-> <<paths[j], values[indices[j] + 1]>>]
    IN Append(stream, AuthItem(value_ap_pairs))

\* dequeue_and_authenticate returning the values without authenticating them
dequeue_and_authenticate_unchecked(indices, root, stream, read) ==
    IF read >= Len(stream) \/ stream[read + 1].kind # "auth"
    THEN [err |-> "ProofStreamError", values |-> <<>>]
    ELSE [err |-> "none",
          values |-> [j \in 1..Len(stream[read + 1].body) |-> stream[read + 1].body[j][2]]]

\* the result: the values, or the error
dequeue_and_authenticate(indices, root, stream, read) ==
    IF read >= Len(stream) \/ stream[read + 1].kind # "auth"
    THEN [err |-> "ProofStreamError", values |-> <<>>]
    ELSE LET pairs == stream[read + 1].body
             values == [j \in 1..Len(pairs) |-> pairs[j][2]]
             path_digest_pairs ==
                 [j \in 1..Len(pairs) |-> <<pairs[j][1], hash_slice(values[j])>>]
         IN IF verify_authentication_structure(root, indices, path_digest_pairs)
            THEN [err |-> "none", values |-> values]
            ELSE [err |-> "BadMerkleProof", values |-> <<>>]

-----------------------------------------------------------------------------
(* The inputs of a run *)

Min(a, b) == IF a < b THEN a ELSE b

DomainLengths == {Pow2(k) : k \in 1..MaxLogN}

ExpansionFactors(length) == {Pow2(k) : k \in 1..log_2_floor(length)}

LeadingCoefficients == {XOne, <<3, 1, 2>>}
LowerCoefficients == {XZero, <<2, 0, 0>>}

\* the polynomial of degree d with the given leading and lower coefficients
PolynomialOf(d, leading, lower) ==
    [k \in 1..(d + 1) |-> IF k = d + 1 THEN leading ELSE lower]

\* polynomials of degree 0, bound - 1 (the largest a proof exists for) and bound
Polynomials(bound) ==
    {PolynomialOf(d, leading, lower) :
        d \in {0, bound - 1, bound},
        leading \in LeadingCoefficients, lower \in LowerCoefficients}

sample_vars == <<si_seed, si_last_indices, si_indices>>
domain_vars == <<domain_offset, pol, x_values, pol_values, interpolant>>
db_vars == <<db, returned, debug_assertions>>

\* the variables of sample_indices called by itself, of x_values_test and of the
\* DatabaseVector, which a prove / verify run does not touch
aside_vars == <<sample_vars, domain_vars, db_vars>>

\* no sample_indices call by itself was made
SampleIdle ==
    /\ si_seed = <<>>
    /\ si_last_indices = <<>>
    /\ si_indices = <<>>

\* x_values_test was not started
DomainIdle ==
    /\ domain_offset = Offset
    /\ pol = <<>>
    /\ x_values = <<>>
    /\ pol_values = <<>>
    /\ interpolant = <<>>

\* what is recorded of a call of a DatabaseVector method: the call, its arguments,
\* and its outcome (kind: "ok", "Some", "None" or "panic")
Call(call, index, value, pairs, kind, out, message) ==
    [call |-> call, index |-> index, value |-> value, pairs |-> pairs,
     kind |-> kind, out |-> out, message |-> message]

NoCall == Call("none", 0, 0, <<>>, "none", 0, "")

\* no database was opened
DatabaseIdle ==
    /\ db = <<>>
    /\ returned = NoCall
    /\ debug_assertions = TRUE

VerifierIdle ==
    /\ roots = <<>>
    /\ alphas = <<>>
    /\ last_codeword = <<>>
    /\ a_indices = <<>>
    /\ a_values = <<>>
    /\ b_indices = <<>>
    /\ current_domain_len = 0
    /\ r = 0
    /\ codeword_evaluations = <<>>
    /\ result = "none"

ProverIdle ==
    /\ items = <<>>
    /\ read_index = 0
    /\ codewords = <<>>
    /\ p_alphas = <<>>
    /\ merkle_trees = <<>>
    /\ top_level_indices = <<>>

Init ==
    /\ domain_length \in DomainLengths
    /\ expansion_factor \in ExpansionFactors(domain_length)
    /\ colinearity_checks_count \in 1..Min(domain_length, MaxChecks)
    /\ poly \in Polynomials(domain_length \div expansion_factor)
    /\ codeword = x_evaluate(Offset, Omega, domain_length, poly)
    /\ pc = "fresh"
    /\ tamper = "none"
    /\ tampered_at = 0
    /\ rounds = NumRounds
    /\ ProverIdle
    /\ VerifierIdle
    /\ SampleIdle
    /\ DomainIdle
    /\ DatabaseIdle

fri_vars == <<domain_length, expansion_factor, colinearity_checks_count, rounds>>
input_vars == <<poly, codeword>>
prover_vars == <<codewords, p_alphas, merkle_trees, top_level_indices>>
verifier_vars == <<roots, alphas, last_codeword, a_indices, a_values, b_indices,
                   current_domain_len, r, codeword_evaluations, result>>

-----------------------------------------------------------------------------
(* Fri::prove *)

\* let (codewords, merkle_trees) = self.commit(codeword, proof_stream)?.into_iter().unzip()
Committed(committed) ==
    /\ items' = committed.stream
    /\ codewords' = [k \in 1..Len(committed.layers) |-> committed.layers[k][1]]
    /\ merkle_trees' = [k \in 1..Len(committed.layers) |-> committed.layers[k][2]]
    /\ p_alphas' = committed.alphas

\* the commit phase
ProveCommit ==
    /\ pc = "fresh"
    /\ Committed(commit(codeword, items, domain_length, expansion_factor,
                        colinearity_checks_count, Omega, Offset))
    /\ pc' = "committed"
    /\ UNCHANGED <<aside_vars, fri_vars, input_vars, read_index, tamper, tampered_at, top_level_indices,
                   verifier_vars>>

\* the shift by a quarter of the domain length instead of half of it
ShiftIndices_quarter(indices, domain_len) ==
    [j \in 1..Len(indices) |-> (indices[j] + domain_len \div 4) % domain_len]

\* the shift to the next index instead of the index half a domain away
ShiftIndices_next(indices, domain_len) ==
    [j \in 1..Len(indices) |-> (indices[j] + 1) % domain_len]

\* b_indices = b_indices.map(|x| (x + current_domain_len / 2) % current_domain_len)
ShiftIndices(indices, domain_len) ==
    [j \in 1..Len(indices) |-> (indices[j] + domain_len \div 2) % domain_len]

\* the loop of the query phase leaving out its last round
RECURSIVE QueryRounds_short(_, _, _, _, _)
QueryRounds_short(round, count, indices, domain_len, stream) ==
    IF round >= count - 1 THEN stream
    ELSE QueryRounds_short(round + 1, count, ShiftIndices(indices, domain_len),
                           domain_len \div 2,
                           enqueue_auth_pairs(ShiftIndices(indices, domain_len),
                                              codewords[round + 1],
                                              merkle_trees[round + 1], stream))

\* for r in 0..merkle_trees.len() - 1
RECURSIVE QueryRounds(_, _, _, _, _)
QueryRounds(round, count, indices, domain_len, stream) ==
    IF round >= count THEN stream
    ELSE QueryRounds(round + 1, count, ShiftIndices(indices, domain_len),
                     domain_len \div 2,
                     enqueue_auth_pairs(ShiftIndices(indices, domain_len),
                                        codewords[round + 1],
                                        merkle_trees[round + 1], stream))

\* the query phase for the sampled top level indices
Queried(top) ==
    /\ items' = QueryRounds(0, Len(merkle_trees) - 1, top, domain_length,
                            enqueue_auth_pairs(top, codeword, merkle_trees[1], items))
    /\ top_level_indices' = top

\* the Fiat-Shamir and query phases
ProveQuery ==
    /\ pc = "committed"
    /\ Queried(sample_indices(prover_fiat_shamir(items), domain_length,
                              expansion_factor, colinearity_checks_count))
    /\ pc' = "proved"
    /\ UNCHANGED <<aside_vars, fri_vars, input_vars, read_index, tamper, tampered_at, codewords, p_alphas,
                   merkle_trees, verifier_vars>>

-----------------------------------------------------------------------------
(* The transcript between prove and verify *)

\* position of root_R and of the last codeword among the messages
LastRootAt == NumRounds[1] + 1
LastCodewordAt == NumRounds[1] + 2

TamperOffsets == {XOne, <<0, 1, 0>>}

\* one element of the last codeword is replaced by a different value
TamperLastCodeword ==
    /\ pc = "proved"
    /\ tamper = "none"
    /\ \E i \in 1..Len(items[LastCodewordAt].body), d \in TamperOffsets :
          items' = [items EXCEPT ![LastCodewordAt].body[i] = XAdd(@, d)]
    /\ tamper' = "last_codeword"
    /\ tampered_at' = LastCodewordAt
    /\ UNCHANGED <<aside_vars, fri_vars, input_vars, read_index, pc, prover_vars, verifier_vars>>

\* one disclosed value of an authentication bundle is replaced by a different value
TamperQueryValue ==
    /\ pc = "proved"
    /\ tamper = "none"
    /\ \E k \in (LastCodewordAt + 1)..Len(items), d \in TamperOffsets :
          \E j \in 1..Len(items[k].body) :
             /\ items' = [items EXCEPT ![k].body[j][2] = XAdd(@, d)]
             /\ tampered_at' = k
    /\ tamper' = "query_value"
    /\ UNCHANGED <<aside_vars, fri_vars, input_vars, read_index, pc, prover_vars, verifier_vars>>

\* the transcript ends prematurely: only its first k messages reach verify
TruncateTranscript ==
    /\ pc = "proved"
    /\ tamper = "none"
    /\ \E k \in 0..(Len(items) - 1) :
          /\ items' = SubSeq(items, 1, k)
          /\ tampered_at' = k + 1
    /\ tamper' = "truncated"
    /\ UNCHANGED <<aside_vars, fri_vars, input_vars, read_index, pc, prover_vars, verifier_vars>>

\* a bundle of wrong length: the last value and path of a bundle are left out
ShortenBundle ==
    /\ pc = "proved"
    /\ tamper = "none"
    /\ \E k \in (LastCodewordAt + 1)..Len(items) :
          /\ items' = [items EXCEPT ![k].body = SubSeq(@, 1, Len(@) - 1)]
          /\ tampered_at' = k
    /\ tamper' = "wrong_length"
    /\ UNCHANGED <<aside_vars, fri_vars, input_vars, read_index, pc, prover_vars, verifier_vars>>

ForgedValues == {XZero, XOne}

\* the constant codeword of the length of the last codeword
ConstantCodeword(c) == [i \in 1..Len(items[LastCodewordAt].body) |-> c]

\* the transcript with root_R and the last codeword replaced
Forged(forged) ==
    /\ forged # items[LastCodewordAt].body
    /\ items' = [items EXCEPT
          ![LastRootAt] = DigestItem(get_root(from_digests(LeafDigests(forged)))),
          ![LastCodewordAt] = CodewordItem(forged)]

\* a prover that does not fold: it commits to a constant last codeword of its own
\* choice instead of the folded one, and answers the queries from its layers
ForgeLastLayer ==
    /\ pc = "committed"
    /\ tamper = "none"
    /\ \E c \in ForgedValues : Forged(ConstantCodeword(c))
    /\ tamper' = "forged"
    /\ tampered_at' = LastCodewordAt
    /\ UNCHANGED <<aside_vars, fri_vars, input_vars, read_index, pc, prover_vars, verifier_vars>>

-----------------------------------------------------------------------------
(* Fri::verify *)

\* ProofStream::dequeue of a message of the given kind: is there one to read
CanDequeue(stream, read, kind) == read < Len(stream) /\ stream[read + 1].kind = kind

Fail(error) ==
    /\ result' = error
    /\ pc' = "done"

\* the loop reading the roots with alpha drawn after the next root is dequeued
RECURSIVE ReadRoots_late(_, _, _)
ReadRoots_late(k, rounds_count, local) ==
    IF k >= rounds_count \/ local.err # "none" THEN local
    ELSE ReadRoots_late(k + 1, rounds_count,
             IF CanDequeue(items, local.read, "digest")
             THEN [err |-> "none", read |-> local.read + 1,
                   roots |-> Append(local.roots, items[local.read + 1].body),
                   alphas |-> Append(local.alphas,
                                  XSample(verifier_fiat_shamir(items, local.read + 1)))]
             ELSE [local EXCEPT !.err = "ProofStreamError"])

\* the loop reading the roots: state after k iterations
RECURSIVE ReadRoots(_, _, _)
ReadRoots(k, rounds_count, local) ==
    IF k >= rounds_count \/ local.err # "none" THEN local
    ELSE ReadRoots(k + 1, rounds_count,
             IF CanDequeue(items, local.read, "digest")
             THEN [err |-> "none", read |-> local.read + 1,
                   roots |-> Append(local.roots, items[local.read + 1].body),
                   alphas |-> Append(local.alphas,
                                  XSample(verifier_fiat_shamir(items, local.read)))]
             ELSE [local EXCEPT !.err = "ProofStreamError"])

\* the verifier's variables after the loop reading the roots
RootsRead(read) ==
    /\ read_index' = read.read
    /\ roots' = read.roots
    /\ alphas' = read.alphas
    /\ IF read.err = "none"
       THEN pc' = "v_last_codeword" /\ result' = result
       ELSE Fail(read.err)

\* extract all roots and calculate the challenges
VerifyRoots ==
    /\ pc = "proved"
    /\ IF ~CanDequeue(items, read_index, "digest")
       THEN /\ Fail("ProofStreamError")
            /\ UNCHANGED <<read_index, roots, alphas>>
       ELSE RootsRead(ReadRoots(0, NumRounds[1],
                          [err |-> "none", read |-> read_index + 1,
                           roots |-> <<items[read_index + 1].body>>,
                           alphas |-> <<>>]))
    /\ UNCHANGED <<aside_vars, fri_vars, input_vars, items, tamper, tampered_at, prover_vars, last_codeword,
                   a_indices, a_values, b_indices, current_domain_len, r,
                   codeword_evaluations>>

\* VerifyLastCodeword without the comparison of the roots
VerifyLastCodeword_unchecked ==
    /\ pc = "v_last_codeword"
    /\ IF ~CanDequeue(items, read_index, "codeword")
       THEN /\ Fail("ProofStreamError")
            /\ UNCHANGED <<read_index, last_codeword>>
       ELSE /\ read_index' = read_index + 1
            /\ last_codeword' = items[read_index + 1].body
            /\ pc' = "v_degree"
            /\ result' = result
    /\ UNCHANGED <<aside_vars, fri_vars, input_vars, items, tamper, tampered_at, prover_vars, roots,
                   alphas, a_indices, a_values, b_indices, current_domain_len, r,
                   codeword_evaluations>>

\* extract the last codeword and check that it matches the last root
VerifyLastCodeword ==
    /\ pc = "v_last_codeword"
    /\ IF ~CanDequeue(items, read_index, "codeword")
       THEN /\ Fail("ProofStreamError")
            /\ UNCHANGED <<read_index, last_codeword>>
       ELSE /\ read_index' = read_index + 1
            /\ last_codeword' = items[read_index + 1].body
            /\ IF roots[Len(roots)] #
                    get_root(from_digests(LeafDigests(items[read_index + 1].body)))
               THEN Fail("BadMerkleRootForLastCodeword")
               ELSE pc' = "v_degree" /\ result' = result
    /\ UNCHANGED <<aside_vars, fri_vars, input_vars, items, tamper, tampered_at, prover_vars, roots, alphas,
                   a_indices, a_values, b_indices, current_domain_len, r,
                   codeword_evaluations>>

\* for _ in 0..num_rounds { last_omega = last_omega * last_omega }
RECURSIVE SquareTimes(_, _)
SquareTimes(x, times) == IF times = 0 THEN x ELSE SquareTimes(BMul(x, x), times - 1)

\* the degree of the interpolant of the last codeword
last_poly_degree ==
    degree(intt(last_codeword, SquareTimes(Omega, NumRounds[1]),
                log_2_floor(Len(last_codeword))))

\* VerifyDegree rejecting a last codeword of degree degree_of_last_round too
VerifyDegree_strict ==
    /\ pc = "v_degree"
    /\ IF last_poly_degree >= NumRounds[2]
       THEN Fail("LastIterationTooHighDegree")
       ELSE pc' = "v_sample" /\ result' = result
    /\ UNCHANGED <<aside_vars, fri_vars, input_vars, items, read_index, tamper, tampered_at,
                   prover_vars, roots, alphas, last_codeword, a_indices, a_values,
                   b_indices, current_domain_len, r, codeword_evaluations>>

\* VerifyDegree without the comparison of the degrees
VerifyDegree_unchecked ==
    /\ pc = "v_degree"
    /\ pc' = "v_sample"
    /\ result' = result
    /\ UNCHANGED <<aside_vars, fri_vars, input_vars, items, read_index, tamper, tampered_at,
                   prover_vars, roots, alphas, last_codeword, a_indices, a_values,
                   b_indices, current_domain_len, r, codeword_evaluations>>

\* verify that the last codeword is of sufficiently low degree
VerifyDegree ==
    /\ pc = "v_degree"
    /\ IF last_poly_degree > NumRounds[2]
       THEN Fail("LastIterationTooHighDegree")
       ELSE pc' = "v_sample" /\ result' = result
    /\ UNCHANGED <<aside_vars, fri_vars, input_vars, items, read_index, tamper, tampered_at, prover_vars, roots,
                   alphas, last_codeword, a_indices, a_values, b_indices,
                   current_domain_len, r, codeword_evaluations>>

\* the verifier's variables after the top level values were dequeued
TopOpened(sampled, opened) ==
    /\ a_indices' = sampled
    /\ IF opened.err = "none"
       THEN /\ a_values' = opened.values
            /\ read_index' = read_index + 1
            /\ b_indices' = sampled
            /\ current_domain_len' = domain_length
            /\ pc' = "v_round"
            /\ result' = result
       ELSE /\ Fail(opened.err)
            /\ read_index' =
                  IF opened.err = "BadMerkleProof" THEN read_index + 1 ELSE read_index
            /\ UNCHANGED <<a_values, b_indices, current_domain_len>>

\* the top level values dequeued and authenticated for the sampled indices
TopSampled(sampled) ==
    TopOpened(sampled, dequeue_and_authenticate(sampled, roots[1], items, read_index))

\* sample the indices and authenticate the top-level "A" values
VerifySample ==
    /\ pc = "v_sample"
    /\ TopSampled(sample_indices(verifier_fiat_shamir(items, read_index),
                      domain_length, expansion_factor, colinearity_checks_count))
    /\ UNCHANGED <<aside_vars, fri_vars, input_vars, items, tamper, tampered_at, prover_vars, roots, alphas,
                   last_codeword, r, codeword_evaluations>>

\* get_evaluation_argument without the power 2^round
get_evaluation_argument_unsquared(idx, round) ==
    BMul(Offset, mod_pow_u32(Omega, idx))

\* Fri::get_evaluation_argument
get_evaluation_argument(idx, round) ==
    mod_pow_u32(BMul(Offset, mod_pow_u32(Omega, idx)), Pow2(round))

\* the "C" values of round `round` from the "A" and "B" values of the round
ColinearValues(round, b_idx, b_values) ==
    [i \in 1..colinearity_checks_count |->
        get_colinear_y(<<lift(get_evaluation_argument(a_indices[i], round)), a_values[i]>>,
                       <<lift(get_evaluation_argument(b_idx[i], round)), b_values[i]>>,
                       alphas[round + 1])]

\* for s in 0..self.colinearity_checks_count { push a; push b }
TopLevelEvaluations(b_idx, b_values) ==
    Concat([s \in 1..colinearity_checks_count |->
               << <<a_indices[s], a_values[s]>>, <<b_idx[s], b_values[s]>> >>])

\* the verifier's variables after the "B" values of the round were dequeued
RoundOpened(shifted, opened) ==
    /\ b_indices' = shifted
    /\ IF opened.err # "none"
       THEN /\ Fail(opened.err)
            /\ read_index' =
                  IF opened.err = "BadMerkleProof" THEN read_index + 1 ELSE read_index
            /\ UNCHANGED <<a_indices, a_values, current_domain_len, r,
                           codeword_evaluations>>
       ELSE /\ read_index' = read_index + 1
            /\ current_domain_len' = current_domain_len \div 2
            /\ codeword_evaluations' =
                  IF r = 0 THEN TopLevelEvaluations(shifted, opened.values)
                  ELSE codeword_evaluations
            /\ a_indices' = [j \in 1..Len(a_indices) |->
                                a_indices[j] % (current_domain_len \div 2)]
            /\ a_values' = ColinearValues(r, shifted, opened.values)
            /\ r' = r + 1
            /\ UNCHANGED <<pc, result>>

\* the "B" values dequeued and authenticated for the "B" indices of the round
RoundShifted(shifted) ==
    RoundOpened(shifted, dequeue_and_authenticate(shifted, roots[r + 1], items, read_index))

\* one iteration of the loop over the rounds
VerifyRound ==
    /\ pc = "v_round"
    /\ r < NumRounds[1]
    /\ RoundShifted(ShiftIndices(b_indices, current_domain_len))
    /\ UNCHANGED <<aside_vars, fri_vars, input_vars, items, tamper, tampered_at, prover_vars, roots, alphas,
                   last_codeword>>

\* Ok(codeword_evaluations)
VerifyReturn ==
    /\ pc = "v_round"
    /\ r >= NumRounds[1]
    /\ result' = "Ok"
    /\ pc' = "done"
    /\ UNCHANGED <<aside_vars, fri_vars, input_vars, items, read_index, tamper, tampered_at, prover_vars, roots,
                   alphas, last_codeword, a_indices, a_values, b_indices,
                   current_domain_len, r, codeword_evaluations>>

-----------------------------------------------------------------------------

Next ==
    \/ ProveCommit
    \/ ForgeLastLayer
    \/ ProveQuery
    \/ TamperLastCodeword
    \/ TamperQueryValue
    \/ TruncateTranscript
    \/ ShortenBundle
    \/ VerifyRoots
    \/ VerifyLastCodeword
    \/ VerifyDegree
    \/ VerifySample
    \/ VerifyRound
    \/ VerifyReturn

Spec == Init /\ [][Next]_vars

-----------------------------------------------------------------------------
(* get_rounds_count_test: the fields of one Fri object are reassigned and     *)
(* fri.num_rounds() is called after the assignments                           *)

TableDomainLengths == {256, 512, 1048576}
TableExpansionFactors == {4, 8}

\* get_x_field_fri_test_object(512, 4, 2); no prove or verify call is made
InitRounds ==
    /\ domain_length = 512
    /\ expansion_factor = 4
    /\ colinearity_checks_count = 2
    /\ rounds = num_rounds(512, 4, 2)
    /\ poly = <<>>
    /\ codeword = <<>>
    /\ pc = "rounds_test"
    /\ tamper = "none"
    /\ tampered_at = 0
    /\ ProverIdle
    /\ VerifierIdle
    /\ SampleIdle
    /\ DomainIdle
    /\ DatabaseIdle

run_vars == <<input_vars, items, read_index, pc, tamper, tampered_at, prover_vars,
              verifier_vars>>

\* fri.colinearity_checks_count = checks; fri.num_rounds()
SetColinearityChecksCount ==
    /\ pc = "rounds_test"
    /\ \E checks \in 1..MaxTableChecks :
          /\ colinearity_checks_count' = checks
          /\ rounds' = num_rounds(domain_length, expansion_factor, checks)
    /\ UNCHANGED <<domain_length, expansion_factor, run_vars, aside_vars>>

\* fri.domain.length = length; fri.num_rounds()
SetDomainLength ==
    /\ pc = "rounds_test"
    /\ \E length \in TableDomainLengths :
          /\ domain_length' = length
          /\ rounds' = num_rounds(length, expansion_factor, colinearity_checks_count)
    /\ UNCHANGED <<expansion_factor, colinearity_checks_count, run_vars, aside_vars>>

\* fri.expansion_factor = expansion; fri.num_rounds()
SetExpansionFactor ==
    /\ pc = "rounds_test"
    /\ \E expansion \in TableExpansionFactors :
          /\ expansion_factor' = expansion
          /\ rounds' = num_rounds(domain_length, expansion, colinearity_checks_count)
    /\ UNCHANGED <<domain_length, colinearity_checks_count, run_vars, aside_vars>>

NextRounds ==
    \/ SetColinearityChecksCount
    \/ SetDomainLength
    \/ SetExpansionFactor

SpecRounds == InitRounds /\ [][NextRounds]_vars

-----------------------------------------------------------------------------
(* Properties *)

\* N / rho - 1, the largest degree a proof exists for
MaxDegree == domain_length \div expansion_factor - 1

Honest == tamper = "none"
Returned == pc = "done"

\* the messages at position pos open the values of the layer at the indices
OpensAt(pos, indices, layer) ==
    /\ pos <= Len(items)
    /\ items[pos].kind = "auth"
    /\ Len(items[pos].body) = Len(indices)
    /\ \A j \in 1..Len(indices) :
          /\ items[pos].body[j][2] = codewords[layer][indices[j] + 1]
          /\ RootFromPath(indices[j], items[pos].body[j][1],
                          hash_slice(items[pos].body[j][2]), 1)
               = get_root(merkle_trees[layer])

\* the "A" index of round `round` that belongs to a top level index
AIndexOf(index, round) == index % (domain_length \div Pow2(round))

\* the "B" index of round `round` that belongs to a top level index
RECURSIVE BIndexOf(_, _)
BIndexOf(index, round) ==
    IF round = 0 THEN (index + domain_length \div 2) % domain_length
    ELSE (BIndexOf(index, round - 1) + domain_length \div Pow2(round + 1))
           % (domain_length \div Pow2(round))

AIndicesOf(round) ==
    [j \in 1..Len(top_level_indices) |-> AIndexOf(top_level_indices[j], round)]

BIndicesOf(round) ==
    [j \in 1..Len(top_level_indices) |-> BIndexOf(top_level_indices[j], round)]

\* root_0 .. root_R and the last codeword lead the transcript
RootsThenLastCodeword ==
    /\ Len(items) >= NumRounds[1] + 2
    /\ \A k \in 1..(NumRounds[1] + 1) : items[k] = DigestItem(get_root(merkle_trees[k]))
    /\ items[NumRounds[1] + 2] = CodewordItem(codewords[NumRounds[1] + 1])

\* C1: completeness. Whenever prove and then verify have run on an untampered
\* transcript for a codeword of a polynomial of degree <= N / rho - 1, verify
\* has returned Ok.
C1_Completeness ==
    (Honest /\ Returned /\ degree(poly) <= MaxDegree) => result = "Ok"

\* an accepted honest run of a polynomial of the largest degree, over two rounds
C1_Witness ==
    /\ Honest /\ Returned /\ result = "Ok"
    /\ degree(poly) = MaxDegree
    /\ NumRounds[1] = 2
    /\ r = 2

\* C2: final consistency check. Whenever verify has returned Ok, the folded
\* values a_values equal the last codeword at the final a_indices.
C2_FinalConsistency ==
    (Returned /\ result = "Ok") =>
        \A i \in 1..Len(a_values) : a_values[i] = last_codeword[a_indices[i] + 1]

\* C3: soundness lower bound. For a codeword of a polynomial of degree exactly
\* N / rho, verify on the transcript of prove returns an error, and the error
\* is LastIterationTooHighDegree or NotColinear.
C3_SoundnessLowerBound ==
    (Honest /\ Returned /\ degree(poly) = MaxDegree + 1) =>
        result \in {"LastIterationTooHighDegree", "NotColinear"}

\* a rejected honest run of a polynomial of degree N / rho, after a folding round
C3_Witness ==
    /\ Honest /\ Returned /\ result = "LastIterationTooHighDegree"
    /\ degree(poly) = MaxDegree + 1
    /\ NumRounds[1] >= 1
    /\ read_index = LastCodewordAt

\* C4 as amended: the transcript prove writes is root_0 .. root_R, the last
\* codeword, the bundle of the top level indices against MT_0, and then for
\* each round r = 0 .. R-1 one bundle, of the b_indices of round r against MT_r.
C4_TranscriptOrder ==
    (pc = "proved" /\ Honest) =>
        /\ RootsThenLastCodeword
        /\ Len(items) = 2 * NumRounds[1] + 3
        /\ OpensAt(NumRounds[1] + 3, top_level_indices, 1)
        /\ \A k \in 1..NumRounds[1] :
              OpensAt(NumRounds[1] + 3 + k, BIndicesOf(k - 1), k)

\* a transcript of two rounds: three bundles follow the last codeword
C4_Witness ==
    /\ pc = "proved" /\ Honest
    /\ NumRounds[1] = 2
    /\ Len(items) = 7
    /\ items[7].kind = "auth"

\* C4 as stated: after the last codeword come, for each round r = 0 .. R-1, the
\* bundle of the a_indices against MT_r and then the bundle of the b_indices
\* against MT_r.
C4_TranscriptOrderAsStated ==
    (pc = "proved" /\ Honest) =>
        /\ RootsThenLastCodeword
        /\ Len(items) = 3 * NumRounds[1] + 2
        /\ \A k \in 1..NumRounds[1] :
              /\ OpensAt(NumRounds[1] + 2 * k + 1, AIndicesOf(k - 1), k)
              /\ OpensAt(NumRounds[1] + 2 * k + 2, BIndicesOf(k - 1), k)

\* C5: whenever verify has returned Ok, the returned list holds exactly 2q
\* pairs: for each query j the pair of a_indices[j] and then the pair of
\* b_indices[j] of layer 0, each with the layer 0 codeword value at the index.
C5_ReturnedPairs ==
    (Returned /\ result = "Ok") =>
        /\ Len(codeword_evaluations) = 2 * colinearity_checks_count
        /\ \A j \in 1..colinearity_checks_count :
              /\ codeword_evaluations[2 * j - 1] =
                    <<top_level_indices[j], codeword[top_level_indices[j] + 1]>>
              /\ codeword_evaluations[2 * j] =
                    <<BIndexOf(top_level_indices[j], 0),
                      codeword[BIndexOf(top_level_indices[j], 0) + 1]>>

\* the verifier has left the loop reading the roots
RootsWereRead == pc \in {"v_last_codeword", "v_degree", "v_sample", "v_round", "done"}

\* the verifier has sampled its indices and no round has replaced them yet
IndicesWereSampled == pc = "v_round" /\ r = 0

\* C6: Fiat-Shamir agreement. In an untampered run prove returns exactly q top
\* level indices, verify derives the challenges alpha_0 .. alpha_(R-1) that commit
\* drew and the indices that prove returned; alpha_r is the sample of the digest
\* of the messages root_0 .. root_r, and the indices are sampled from the digest
\* of the messages up to the last codeword.
C6_FiatShamirAgreement ==
    Honest =>
        /\ pc \notin {"fresh", "committed"} =>
              /\ Len(top_level_indices) = colinearity_checks_count
              /\ top_level_indices =
                    sample_indices(fiat_shamir(items, LastCodewordAt), domain_length,
                                   expansion_factor, colinearity_checks_count)
        /\ RootsWereRead =>
              /\ alphas = p_alphas
              /\ Len(alphas) = NumRounds[1]
              /\ \A k \in 1..Len(alphas) : alphas[k] = XSample(fiat_shamir(items, k))
        /\ IndicesWereSampled => a_indices = top_level_indices

\* the verifier holds two challenges and the sampled indices of two queries
C6_Witness ==
    /\ Honest /\ IndicesWereSampled
    /\ Len(alphas) = 2
    /\ alphas = p_alphas
    /\ alphas[1] # alphas[2]
    /\ Len(a_indices) = 2
    /\ a_indices = top_level_indices

\* C8: when one element of the last codeword was replaced after prove, verify
\* returns BadMerkleRootForLastCodeword, never reaching the degree check, and
\* reading no message after the last codeword.
C8_TamperedLastCodeword ==
    tamper = "last_codeword" =>
        /\ pc \in {"proved", "v_last_codeword", "done"}
        /\ Returned =>
              /\ result = "BadMerkleRootForLastCodeword"
              /\ read_index = LastCodewordAt
              /\ a_indices = <<>>
              /\ a_values = <<>>

\* verify has rejected a transcript whose last codeword was altered, the
\* codeword being one it would otherwise accept
C8_Witness ==
    /\ tamper = "last_codeword" /\ Returned
    /\ result = "BadMerkleRootForLastCodeword"
    /\ last_codeword # <<>>
    /\ last_codeword # codewords[Len(codewords)]
    /\ degree(poly) <= MaxDegree
    /\ Len(items) > read_index

\* C9 as amended: when a disclosed value of a bundle was altered after prove,
\* for a codeword of a polynomial of degree <= N / rho - 1 verify returns
\* BadMerkleProof on reading the altered bundle, and for a codeword of higher
\* degree it returns LastIterationTooHighDegree before reading any bundle.
C9_TamperedQueryValue ==
    (tamper = "query_value" /\ Returned) =>
        IF degree(poly) <= MaxDegree
        THEN result = "BadMerkleProof" /\ read_index = tampered_at
        ELSE result = "LastIterationTooHighDegree" /\ read_index = LastCodewordAt

\* verify has rejected at the altered bundle of the last round of two
C9_Witness ==
    /\ tamper = "query_value" /\ Returned
    /\ result = "BadMerkleProof"
    /\ NumRounds[1] = 2
    /\ tampered_at = Len(items)
    /\ read_index = tampered_at
    /\ r = 1

\* C9 as stated: when a disclosed value of a bundle was altered after prove,
\* verify returns BadMerkleProof.
C9_TamperedQueryValueAsStated ==
    (tamper = "query_value" /\ Returned) => result = "BadMerkleProof"

RoundsTable ==
    { <<512, 4, 2, 7, 0>>, <<512, 4, 8, 6, 1>>, <<512, 4, 10, 5, 3>>,
      <<512, 4, 16, 5, 3>>, <<512, 4, 17, 4, 7>>, <<512, 4, 18, 4, 7>>,
      <<512, 4, 31, 4, 7>>, <<512, 4, 32, 4, 7>>, <<512, 4, 33, 3, 15>>,
      <<256, 4, 33, 2, 15>>, <<256, 4, 32, 3, 7>>, <<256, 4, 17, 3, 7>>,
      <<1048576, 8, 32, 15, 3>>, <<1048576, 8, 33, 14, 7>>,
      <<1048576, 8, 63, 14, 7>>, <<1048576, 8, 64, 14, 7>>,
      <<1048576, 8, 65, 13, 15>> }

\* the least k with 2^k >= x
CeilLog2(x) == CHOOSE k \in 0..24 : Pow2(k) >= x /\ \A j \in 0..(k - 1) : Pow2(j) < x

\* ceil(log2(ceil(q / rho))) when rho < q, and 0 otherwise
Missed(rho, q) == IF rho < q THEN CeilLog2((q + rho - 1) \div rho) ELSE 0

\* C10: num_rounds gives the tabulated (R, delta) on the tabulated (N, rho, q),
\* and for all parameters R = ceil(log2(N / rho)) - missed and
\* delta = 2^missed - 1.
C10_NumRoundsTable ==
    pc = "rounds_test" =>
        /\ \A row \in RoundsTable :
              (domain_length = row[1] /\ expansion_factor = row[2]
                 /\ colinearity_checks_count = row[3]) => rounds = <<row[4], row[5]>>
        /\ rounds =
              <<CeilLog2(domain_length \div expansion_factor)
                  - Missed(expansion_factor, colinearity_checks_count),
                Pow2(Missed(expansion_factor, colinearity_checks_count)) - 1>>

\* the last row of the table
C10_Witness ==
    /\ pc = "rounds_test"
    /\ domain_length = 1048576
    /\ expansion_factor = 8
    /\ colinearity_checks_count = 65
    /\ rounds = <<13, 15>>

\* the kind of message verify dequeues at a position: R + 1 roots, the last
\* codeword, then the bundles
DequeuedKind(pos) ==
    IF pos <= NumRounds[1] + 1 THEN "digest"
    ELSE IF pos = NumRounds[1] + 2 THEN "codeword"
    ELSE "auth"

\* C22: on an untampered transcript every dequeue of verify finds a message, of
\* the kind prove wrote at that position: R + 1 roots, the last codeword, the
\* bundle of the top level indices and one bundle for each round; when verify
\* has returned Ok it has read all 2R + 3 messages.
C22_MessageCount ==
    Honest =>
        /\ read_index <= Len(items)
        /\ \A pos \in 1..read_index : items[pos].kind = DequeuedKind(pos)
        /\ result # "ProofStreamError"
        /\ pc = "v_last_codeword" => read_index = NumRounds[1] + 1
        /\ pc \in {"v_degree", "v_sample"} => read_index = NumRounds[1] + 2
        /\ pc = "v_round" => read_index = NumRounds[1] + 3 + r
        /\ (Returned /\ result = "Ok") =>
              /\ read_index = Len(items)
              /\ Len(items) = 2 * NumRounds[1] + 3

\* seven messages of a run of two rounds were all read
C22_Witness ==
    /\ Honest /\ Returned /\ result = "Ok"
    /\ NumRounds[1] = 2
    /\ read_index = 7
    /\ Len(items) = 7
    /\ \A pos \in 1..7 : items[pos].kind = DequeuedKind(pos)

\* the "A" index of the round verify has just finished that belongs to the "B"
\* index of query j: the sibling, in the layer of twice the current length
PreviousAIndex(j) ==
    (b_indices[j] + current_domain_len) % (2 * current_domain_len)

\* C23: in an untampered run, after every round of verify and for every query j,
\* the value get_colinear_y has computed from the "A" and "B" points of the round
\* at alpha_r is the value of the prover's next codeword at a_indices[j] mod
\* N_(r+1), the two evaluation arguments being opposite, whether the "A" index
\* was in the lower or in the upper half of its layer.
C23_FoldAgreement ==
    (Honest /\ pc \in {"v_round", "done"} /\ r >= 1) =>
        \A j \in 1..colinearity_checks_count :
            /\ a_indices[j] = top_level_indices[j] % current_domain_len
            /\ a_values[j] = codewords[r + 1][a_indices[j] + 1]
            /\ a_values[j] = codewords[r + 1][(PreviousAIndex(j) % current_domain_len) + 1]
            /\ BAdd(get_evaluation_argument(PreviousAIndex(j), r - 1),
                    get_evaluation_argument(b_indices[j], r - 1)) = 0
            /\ p_alphas[r] = alphas[r]

\* the second round of verify has folded a value at an "A" index of the upper
\* half of layer 1
C23_Witness ==
    /\ Honest /\ pc = "v_round" /\ r = 2
    /\ \E j \in 1..colinearity_checks_count :
          /\ PreviousAIndex(j) >= current_domain_len
          /\ b_indices[j] < current_domain_len
          /\ a_values[j] = codewords[3][a_indices[j] + 1]
          /\ a_values[j] # XZero

\* ((index mod N_r) + N_r / 2) mod N_r for every top level index, N_r = N / 2^round
SiblingIndices(top, round) ==
    [j \in 1..Len(top) |->
        ((top[j] % (domain_length \div Pow2(round)))
            + domain_length \div Pow2(round + 1)) % (domain_length \div Pow2(round))]

\* the top level indices verify has sampled, once it is in its rounds
VerifierTopIndices ==
    sample_indices(fiat_shamir(items, LastCodewordAt), domain_length, expansion_factor,
                   colinearity_checks_count)

\* C24: in every round r of prove and of verify, b_indices[j] is
\* ((top_indices[j] mod N_r) + N_r / 2) mod N_r, although each round derives its
\* b_indices from those of the round before; on the transcript prove wrote, prove
\* and verify open the same b indices in every round.
C24_SiblingIndices ==
    /\ (pc = "proved" /\ Honest) =>
          \A k \in 1..NumRounds[1] :
              /\ BIndicesOf(k - 1) = SiblingIndices(top_level_indices, k - 1)
              /\ OpensAt(NumRounds[1] + 3 + k,
                         SiblingIndices(top_level_indices, k - 1), k)
    /\ (pc = "v_round" /\ r >= 1) =>
          b_indices = SiblingIndices(VerifierTopIndices, r - 1)
    /\ (pc = "v_round" /\ r >= 1 /\ Honest) =>
          b_indices = SiblingIndices(top_level_indices, r - 1)

\* the second round of verify has opened siblings in layer 1 that are not the
\* top level indices shifted twice
C24_Witness ==
    /\ pc = "v_round" /\ r = 2 /\ Honest
    /\ b_indices = SiblingIndices(top_level_indices, 1)
    /\ \E j \in 1..Len(b_indices) :
          b_indices[j] # top_level_indices[j] + domain_length \div 2 + domain_length \div 4

\* C25: commit returns exactly R + 1 layers of a codeword and a Merkle tree and
\* enqueues exactly R + 1 roots; the codeword of layer 0 is the input codeword and
\* the codeword of layer r has N / 2^r elements; so in prove the codeword of
\* round r has the current domain length and every index opened in round r is in
\* [0, N / 2^r).
C25_LayerStructure ==
    /\ pc # "fresh" =>
          /\ Len(codewords) = NumRounds[1] + 1
          /\ Len(merkle_trees) = NumRounds[1] + 1
          /\ codewords[1] = codeword
          /\ \A k \in 1..Len(codewords) :
                /\ Len(codewords[k]) = domain_length \div Pow2(k - 1)
                /\ merkle_trees[k] = from_digests(LeafDigests(codewords[k]))
    /\ pc = "committed" =>
          /\ Len(items) = NumRounds[1] + 2
          /\ \A k \in 1..Len(items) :
                items[k].kind = "digest" <=> k <= NumRounds[1] + 1
    /\ (pc = "committed" /\ Honest) => RootsThenLastCodeword
    /\ pc \notin {"fresh", "committed"} =>
          /\ \A j \in 1..Len(top_level_indices) :
                top_level_indices[j] >= 0 /\ top_level_indices[j] < Len(codewords[1])
          /\ \A k \in 1..NumRounds[1] : \A j \in 1..Len(top_level_indices) :
                /\ BIndicesOf(k - 1)[j] >= 0
                /\ BIndicesOf(k - 1)[j] < domain_length \div Pow2(k - 1)
                /\ BIndicesOf(k - 1)[j] < Len(codewords[k])

\* three layers of 8, 4 and 2 elements
C25_Witness ==
    /\ pc = "committed"
    /\ NumRounds[1] = 2
    /\ Len(codewords) = 3
    /\ Len(codewords[1]) = 8 /\ Len(codewords[2]) = 4 /\ Len(codewords[3]) = 2
    /\ codewords[1] = codeword
    /\ Len(items) = 4

\* the Fri object of get_rounds_count_test holds N = 256, rho = 4, q = 2
SmallChecksOn256 ==
    /\ pc = "rounds_test"
    /\ domain_length = 256
    /\ expansion_factor = 4
    /\ colinearity_checks_count = 2

\* C11 as amended: for N = 256, rho = 4, q = 2, num_rounds returns (6, 0).
C11_Rounds256 == SmallChecksOn256 => rounds = <<6, 0>>

\* num_rounds was called on N = 256, rho = 4, q = 2
C11_Witness == SmallChecksOn256 /\ rounds = <<6, 0>>

\* C11 as stated: for N = 256, rho = 4, q = 2, num_rounds returns (2, 15).
C11_Rounds256AsStated == SmallChecksOn256 => rounds = <<2, 15>>

\* C12: when num_rounds gives a round count R <= 0, prove writes no transcript
\* and verify returns NonPositiveRoundCount.
C12_NonPositiveRoundCount ==
    NumRounds[1] <= 0 =>
        /\ pc \notin {"committed", "proved"}
        /\ items = <<>>
        /\ Returned => result = "NonPositiveRoundCount"

\* C13: when the transcript ends prematurely or a bundle holds a number of
\* values other than q, verify returns BadSizedProof.
C13_BadSizedProof ==
    (tamper \in {"truncated", "wrong_length"} /\ Returned) => result = "BadSizedProof"

-----------------------------------------------------------------------------
(* Fri::sample_indices called by itself on a seed *)

SampleDomainLengths == {Pow2(k) : k \in 1..MaxSampleLogN}

Seeds == {hash_slice(<<s>>) : s \in 0..MaxSeed}

\* self.domain.length >> num_rounds
LastCodewordLength == domain_length \div Pow2(NumRounds[1])

\* a Fri object and a seed; no prove or verify call is made
InitSample ==
    /\ domain_length \in SampleDomainLengths
    /\ expansion_factor \in ExpansionFactors(domain_length)
    /\ colinearity_checks_count \in 1..Min(domain_length, MaxSampleChecks)
    /\ rounds = NumRounds
    /\ poly = <<>>
    /\ codeword = <<>>
    /\ pc = "sample"
    /\ tamper = "none"
    /\ tampered_at = 0
    /\ ProverIdle
    /\ VerifierIdle
    /\ si_seed \in Seeds
    /\ si_last_indices = <<>>
    /\ si_indices = <<>>
    /\ DomainIdle
    /\ DatabaseIdle

\* the first loop of sample_indices
SampleLastIndices ==
    /\ pc = "sample"
    /\ colinearity_checks_count <= LastCodewordLength
    /\ si_last_indices' =
          DrawLastIndices(si_seed, [i \in 1..LastCodewordLength |-> i - 1], 0,
                          colinearity_checks_count, <<>>)
    /\ pc' = "sample_drawn"
    /\ UNCHANGED <<fri_vars, input_vars, items, read_index, tamper, tampered_at,
                   prover_vars, verifier_vars, si_seed, si_indices, domain_vars, db_vars>>

\* the second loop of sample_indices, and its return
SampleLift ==
    /\ pc = "sample_drawn"
    /\ si_indices' = LiftIndices(si_seed, si_last_indices, 1, NumRounds[1],
                                 LastCodewordLength, colinearity_checks_count)
    /\ pc' = "sample_done"
    /\ UNCHANGED <<fri_vars, input_vars, items, read_index, tamper, tampered_at,
                   prover_vars, verifier_vars, si_seed, si_last_indices, domain_vars,
                   db_vars>>

NextSample ==
    \/ SampleLastIndices
    \/ SampleLift

SpecSample == InitSample /\ [][NextSample]_vars

\* the elements of a sequence are pairwise distinct
Distinct(s) == \A j, k \in 1..Len(s) : j # k => s[j] # s[k]

\* C14: the q last-layer indices drawn by sample_indices are pairwise distinct
\* and each lies in [0, L), L = N / 2^R.
C14_LastIndicesDistinct ==
    pc \in {"sample_drawn", "sample_done"} =>
        /\ Len(si_last_indices) = colinearity_checks_count
        /\ \A j \in 1..Len(si_last_indices) :
              si_last_indices[j] >= 0 /\ si_last_indices[j] < LastCodewordLength
        /\ Distinct(si_last_indices)

\* every index of a last layer of eight was drawn, not in increasing order
C14_Witness ==
    /\ pc = "sample_drawn"
    /\ LastCodewordLength = 8
    /\ Len(si_last_indices) = 8
    /\ Distinct(si_last_indices)
    /\ si_last_indices # [i \in 1..8 |-> i - 1]

\* C28: with R >= 1 every index returned by sample_indices is < N / 2, so that
\* at layer 0 every a-index is in the lower half of the domain and every b-index
\* in the upper half; with R = 0 the indices are in [0, N).
C28_TopIndicesLowerHalf ==
    pc = "sample_done" =>
        \A j \in 1..Len(si_indices) :
            /\ si_indices[j] >= 0
            /\ si_indices[j] < domain_length
            /\ NumRounds[1] >= 1 =>
                  /\ si_indices[j] < domain_length \div 2
                  /\ (si_indices[j] + domain_length \div 2) % domain_length
                        >= domain_length \div 2

\* after three lifts an index is in the highest eighth of the lower half
C28_Witness ==
    /\ pc = "sample_done"
    /\ NumRounds[1] = 4
    /\ \E j \in 1..Len(si_indices) :
          /\ si_indices[j] >= 7 * LastCodewordLength
          /\ si_indices[j] < domain_length \div 2

\* C15: the indices returned by sample_indices reduce mod L to the last-layer
\* indices, and they and their reductions mod N / 2^r at every layer r are
\* pairwise distinct.
C15_TopIndicesReduce ==
    pc = "sample_done" =>
        /\ si_indices = sample_indices(si_seed, domain_length, expansion_factor,
                                       colinearity_checks_count)
        /\ Len(si_indices) = Len(si_last_indices)
        /\ \A j \in 1..Len(si_indices) :
              si_indices[j] % LastCodewordLength = si_last_indices[j]
        /\ \A layer \in 0..NumRounds[1] :
              Distinct([j \in 1..Len(si_indices) |->
                           si_indices[j] % (domain_length \div Pow2(layer))])

\* indices were lifted over three rounds, and one of them was raised
C15_Witness ==
    /\ pc = "sample_done"
    /\ NumRounds[1] >= 3
    /\ Len(si_indices) >= 2
    /\ si_indices # si_last_indices
    /\ \A j \in 1..Len(si_indices) :
          si_indices[j] % LastCodewordLength = si_last_indices[j]

-----------------------------------------------------------------------------
(* FriDomain by itself: x_values_test *)

\* FriDomain::b_domain_values without the offset
b_domain_values_unshifted(offset, omega, length) ==
    [i \in 1..length |-> mod_pow_u32(omega, i - 1)]

\* FriDomain::b_domain_values
b_domain_values(offset, omega, length) ==
    [i \in 1..length |-> BMul(mod_pow_u32(omega, i - 1), offset)]

\* Polynomial::scale over B: the coefficient of x^k is multiplied by alpha^k
b_scale(coefficients, alpha) ==
    [k \in 1..Len(coefficients) |-> BMul(mod_pow_u32(alpha, k - 1), coefficients[k])]

\* Polynomial::scale over X
x_scale(coefficients, alpha) ==
    [k \in 1..Len(coefficients) |-> BXMul(mod_pow_u32(alpha, k - 1), coefficients[k])]

\* Vec::resize: cut to new_len, or filled with value up to new_len
resize(s, new_len, value) ==
    [i \in 1..new_len |-> IF i <= Len(s) THEN s[i] ELSE value]

RECURSIVE NttSum(_, _, _, _)
NttSum(values, omega, k, j) ==
    IF j > Len(values) THEN 0
    ELSE BAdd(BMul(mod_pow_u32(omega, (j - 1) * k), values[j]),
              NttSum(values, omega, k, j + 1))

\* ntt::ntt over B on a domain of 2^log_2_of_n points generated by omega
ntt(values, omega, log_2_of_n) ==
    [k \in 1..Pow2(log_2_of_n) |-> NttSum(values, omega, k - 1, 1)]

\* FriDomain::b_evaluate without the scaling by the offset
b_evaluate_unscaled(offset, omega, length, polynomial) ==
    ntt(resize(polynomial, length, 0), omega, log_2_ceil(length))

\* FriDomain::b_evaluate
b_evaluate(offset, omega, length, polynomial) ==
    ntt(resize(b_scale(polynomial, offset), length, 0), omega, log_2_ceil(length))

\* Polynomial::fast_coset_interpolate: intt, then scale by the inverse of the offset
fast_coset_interpolate(offset, omega, values) ==
    x_scale(intt(values, omega, log_2_ceil(Len(values))), BInv(offset))

\* FriDomain::x_interpolate
x_interpolate(offset, omega, values) == fast_coset_interpolate(offset, omega, values)

\* the coefficients of a polynomial over B as elements of X
Lifted(coefficients) == [k \in 1..Len(coefficients) |-> lift(coefficients[k])]

\* the elements of X of the form lift(b) as elements of B
Unlifted(coefficients) == [k \in 1..Len(coefficients) |-> coefficients[k][1]]

\* FriDomain::b_interpolate
b_interpolate(offset, omega, values) ==
    Unlifted(fast_coset_interpolate(offset, omega, Lifted(values)))

\* the orders of the domains
DomainOrders == {Pow2(k) : k \in 1..MaxDomainLogN}

\* offset: BFieldElement::generator() in x_values_test, 7 in the Fri test object
DomainOffsets == {Generator, Offset}

BCoefficients == {0, 1, P - 1}
XCoefficients == {XZero, XOne, <<3, 1, 2>>}

\* the sequences over a set of coefficients with at most max_len elements
CoefficientLists(coefficients, max_len) ==
    UNION {[1..n -> coefficients] : n \in 0..max_len}

\* a sequence of coefficients without its trailing zeros
RECURSIVE Trimmed(_, _)
Trimmed(coefficients, zero) ==
    IF coefficients = <<>> THEN <<>>
    ELSE IF coefficients[Len(coefficients)] # zero THEN coefficients
    ELSE Trimmed(SubSeq(coefficients, 1, Len(coefficients) - 1), zero)

\* the polynomials of degree below the order with at most max_len coefficients
PolynomialsBelow(coefficients, zero, max_len, order) ==
    {p \in CoefficientLists(coefficients, max_len) : Len(Trimmed(p, zero)) <= order}

\* omega of the domain of x_values_test
DomainOmega == primitive_root_of_unity(domain_length)

\* a domain and a polynomial of degree below its order, over B or over X
InitDomain ==
    /\ domain_length \in DomainOrders
    /\ expansion_factor = 2
    /\ colinearity_checks_count = 1
    /\ rounds = NumRounds
    /\ poly = <<>>
    /\ codeword = <<>>
    /\ pc \in {"b_test", "x_test"}
    /\ tamper = "none"
    /\ tampered_at = 0
    /\ ProverIdle
    /\ VerifierIdle
    /\ SampleIdle
    /\ domain_offset \in DomainOffsets
    /\ pol \in IF pc = "b_test"
               THEN PolynomialsBelow(BCoefficients, 0, MaxPolLen, domain_length)
               ELSE PolynomialsBelow(XCoefficients, XZero, MaxPolLen, domain_length)
    /\ x_values = <<>>
    /\ pol_values = <<>>
    /\ interpolant = <<>>
    /\ DatabaseIdle

domain_frame ==
    <<fri_vars, input_vars, items, read_index, tamper, tampered_at, prover_vars,
      verifier_vars, sample_vars, db_vars, domain_offset>>

\* let x_values = domain.b_domain_values()
BDomainValues ==
    /\ pc = "b_test"
    /\ x_values' = b_domain_values(domain_offset, DomainOmega, domain_length)
    /\ pc' = "b_values"
    /\ UNCHANGED <<domain_frame, pol, pol_values, interpolant>>

\* let values = domain.b_evaluate(&pol)
BEvaluate ==
    /\ pc = "b_values"
    /\ pol_values' = b_evaluate(domain_offset, DomainOmega, domain_length, pol)
    /\ pc' = "b_evaluated"
    /\ UNCHANGED <<domain_frame, pol, x_values, interpolant>>

\* let interpolant = domain.b_interpolate(&values)
BInterpolate ==
    /\ pc = "b_evaluated"
    /\ interpolant' = b_interpolate(domain_offset, DomainOmega, pol_values)
    /\ pc' = "b_done"
    /\ UNCHANGED <<domain_frame, pol, x_values, pol_values>>

\* let x_field_x_values = domain.x_evaluate(&xpol), xpol the lifted pol after the
\* B part of the test
XEvaluate ==
    /\ pc \in {"b_done", "x_test"}
    /\ pol' = IF pc = "b_done" THEN Lifted(pol) ELSE pol
    /\ pol_values' = x_evaluate(domain_offset, DomainOmega, domain_length, pol')
    /\ interpolant' = <<>>
    /\ pc' = "x_evaluated"
    /\ UNCHANGED <<domain_frame, x_values>>

\* let x_interpolant = domain.x_interpolate(&x_field_x_values)
XInterpolate ==
    /\ pc = "x_evaluated"
    /\ interpolant' = x_interpolate(domain_offset, DomainOmega, pol_values)
    /\ pc' = "x_done"
    /\ UNCHANGED <<domain_frame, pol, x_values, pol_values>>

NextDomain ==
    \/ BDomainValues
    \/ BEvaluate
    \/ BInterpolate
    \/ XEvaluate
    \/ XInterpolate

SpecDomain == InitDomain /\ [][NextDomain]_vars

\* the values are those of the polynomial at offset * omega^i, i = 0 .. N - 1
ValuesOnCoset(values, coefficients) ==
    /\ Len(values) = domain_length
    /\ \A i \in 1..domain_length :
          values[i] = evaluate(coefficients,
                               lift(b_domain_value(domain_offset, DomainOmega, i - 1)))

\* C16: for a polynomial of degree < N over B or X, the values returned by
\* b_evaluate / x_evaluate are those of the polynomial at g * omega^i, and
\* b_interpolate / x_interpolate of these values is the polynomial without its
\* trailing zeros.
C16_DomainRoundTrip ==
    /\ pc \in {"b_evaluated", "b_done"} => ValuesOnCoset(Lifted(pol_values), Lifted(pol))
    /\ pc = "b_done" => Trimmed(interpolant, 0) = Trimmed(pol, 0)
    /\ pc \in {"x_evaluated", "x_done"} => ValuesOnCoset(pol_values, pol)
    /\ pc = "x_done" => Trimmed(interpolant, XZero) = Trimmed(pol, XZero)

\* x^3 of x_values_test was evaluated on a domain of order 4 and interpolated
C16_Witness ==
    /\ pc = "b_done"
    /\ domain_length = 4
    /\ pol = <<0, 0, 0, 1>>
    /\ pol_values # pol
    /\ Trimmed(interpolant, 0) = pol

\* C17: b_domain_values() has exactly N entries, and its entry i is
\* b_domain_value(i) = g * omega^i.
C17_DomainValues ==
    pc \in {"b_values", "b_evaluated", "b_done"} =>
        /\ Len(x_values) = domain_length
        /\ Len(get_cyclic_group_elements(DomainOmega)) = domain_length
        /\ \A i \in 1..Len(x_values) :
              /\ x_values[i] = b_domain_value(domain_offset, DomainOmega, i - 1)
              /\ x_values[i] =
                    BMul(domain_offset, get_cyclic_group_elements(DomainOmega)[i])

\* the eight points of a domain of order 8 were listed
C17_Witness ==
    /\ pc = "b_values"
    /\ domain_length = 8
    /\ Len(x_values) = 8
    /\ x_values[1] = domain_offset
    /\ x_values[2] = BMul(domain_offset, DomainOmega)

-----------------------------------------------------------------------------
(* DatabaseVector<u64> over an in-memory rusty_leveldb database: db maps the  *)
(* stored keys to their values, both sequences of bytes                       *)

\* bincode::serialize of an unsigned integer of the given number of bytes:
\* fixed width, little endian
RECURSIVE serialize(_, _)
serialize(n, bytes) ==
    IF bytes = 0 THEN <<>>
    ELSE <<n % 256>> \o serialize(n \div 256, bytes - 1)

RECURSIVE DeserializeFrom(_, _)
DeserializeFrom(bytes, i) ==
    IF i > Len(bytes) THEN 0
    ELSE bytes[i] + 256 * DeserializeFrom(bytes, i + 1)

\* bincode::deserialize of an unsigned integer
deserialize(bytes) == DeserializeFrom(bytes, 1)

\* bincode::serialize(&index) of an index stored in one byte
serialize_index_u8(index) == serialize(index, 1)

\* bincode::serialize(&index), index: u128
serialize_index(index) == serialize(index, 16)

\* bincode::serialize(&value), value: u64
serialize_value(value) == serialize(value, 8)

LENGTH_KEY == <<0>>
INDEX_ZERO == 0

\* DB::put
db_put(d, key, bytes) ==
    [k \in DOMAIN d \cup {key} |-> IF k = key THEN bytes ELSE d[k]]

\* DB::delete
db_delete(d, key) == [k \in DOMAIN d \ {key} |-> d[k]]

\* DB::get(..).is_some()
db_has(d, key) == key \in DOMAIN d

\* DatabaseVector::set_length
set_length(d, length) == db_put(d, LENGTH_KEY, serialize(length, 16))

\* DatabaseVector::delete
delete(d, index) == db_delete(d, serialize_index(index))

\* DatabaseVector::attempt_verify_empty
attempt_verify_empty(d) == ~db_has(d, serialize_index(INDEX_ZERO))

\* DatabaseVector::len
len(d) == deserialize(d[LENGTH_KEY])

\* the arguments of the calls
DbIndices == 0..MaxDbLen
DbValues == {17, 300}
\* the value listed at position k of the pairs given to batch_set: two pairs that
\* follow each other list different values
BatchValue(k) == IF k % 2 = 1 THEN 300 ELSE 17

\* the lists of at most MaxBatch pairs (index, value), any index at any position
BatchLists ==
    {[k \in 1..Len(indices) |-> <<indices[k], BatchValue(k)>>] :
        indices \in UNION {[1..n -> DbIndices] : n \in 0..MaxBatch}}

\* an empty in-memory database was opened, by a build with or without
\* debug assertions
InitDb ==
    /\ domain_length = 2
    /\ expansion_factor = 2
    /\ colinearity_checks_count = 1
    /\ rounds = NumRounds
    /\ poly = <<>>
    /\ codeword = <<>>
    /\ pc = "db_opened"
    /\ tamper = "none"
    /\ tampered_at = 0
    /\ ProverIdle
    /\ VerifierIdle
    /\ SampleIdle
    /\ DomainIdle
    /\ db = <<>>
    /\ returned = NoCall
    /\ debug_assertions \in BOOLEAN

db_frame ==
    <<fri_vars, input_vars, items, read_index, tamper, tampered_at, prover_vars,
      verifier_vars, sample_vars, domain_vars, debug_assertions>>

\* the call panics: the vector is dropped with the database as it is
Panic(call, index, value, pairs, message) ==
    /\ returned' = Call(call, index, value, pairs, "panic", 0, message)
    /\ pc' = "db_panicked"
    /\ db' = db

\* DatabaseVector::new
New ==
    /\ pc = "db_opened"
    /\ IF ~attempt_verify_empty(db)
       THEN Panic("new", 0, 0, <<>>,
                  "Database must be empty when instantiating database vector with new")
       ELSE /\ db' = set_length(db, 0)
            /\ returned' = Call("new", 0, 0, <<>>, "ok", 0, "")
            /\ pc' = "db"
    /\ UNCHANGED db_frame

\* DatabaseVector::get
Get ==
    /\ pc = "db"
    /\ \E index \in DbIndices :
          IF debug_assertions /\ ~(len(db) > index)
          THEN Panic("get", index, 0, <<>>, "Cannot get outside of length")
          ELSE IF ~db_has(db, serialize_index(index))
          THEN Panic("get", index, 0, <<>>,
                     "called Option::unwrap() on a None value")
          ELSE /\ returned' = Call("get", index, 0, <<>>, "ok",
                                   deserialize(db[serialize_index(index)]), "")
               /\ UNCHANGED <<db, pc>>
    /\ UNCHANGED db_frame

\* DatabaseVector::set
Set ==
    /\ pc = "db"
    /\ \E index \in DbIndices, value \in DbValues :
          IF debug_assertions /\ ~(len(db) > index)
          THEN Panic("set", index, value, <<>>, "Cannot set outside of length")
          ELSE /\ db' = db_put(db, serialize_index(index), serialize_value(value))
               /\ returned' = Call("set", index, value, <<>>, "ok", 0, "")
               /\ pc' = pc
    /\ UNCHANGED db_frame

\* for (index, val) in indices_and_vals { batch_write.put(..) }; db.write(batch_write)
RECURSIVE BatchWritten(_, _, _)
BatchWritten(d, indices_and_vals, k) ==
    IF k > Len(indices_and_vals) THEN d
    ELSE BatchWritten(db_put(d, serialize_index(indices_and_vals[k][1]),
                             serialize_value(indices_and_vals[k][2])),
                      indices_and_vals, k + 1)

\* batch_set writing the pairs listed before the first index outside of the length
BatchSet_partial ==
    /\ pc = "db"
    /\ \E indices_and_vals \in BatchLists :
          IF \E k \in 1..Len(indices_and_vals) : ~(indices_and_vals[k][1] < len(db))
          THEN /\ returned' = Call("batch_set", 0, 0, indices_and_vals, "panic", 0,
                                   "All indices must be lower than length of array")
               /\ pc' = "db_panicked"
               /\ db' = BatchWritten(db,
                     SubSeq(indices_and_vals, 1,
                            (CHOOSE k \in 1..Len(indices_and_vals) :
                                /\ ~(indices_and_vals[k][1] < len(db))
                                /\ \A j \in 1..(k - 1) : indices_and_vals[j][1] < len(db))
                            - 1),
                     1)
          ELSE /\ db' = BatchWritten(db, indices_and_vals, 1)
               /\ returned' = Call("batch_set", 0, 0, indices_and_vals, "ok", 0, "")
               /\ pc' = pc
    /\ UNCHANGED db_frame

\* DatabaseVector::batch_set
BatchSet ==
    /\ pc = "db"
    /\ \E indices_and_vals \in BatchLists :
          IF \E k \in 1..Len(indices_and_vals) : ~(indices_and_vals[k][1] < len(db))
          THEN Panic("batch_set", 0, 0, indices_and_vals,
                     "All indices must be lower than length of array")
          ELSE /\ db' = BatchWritten(db, indices_and_vals, 1)
               /\ returned' = Call("batch_set", 0, 0, indices_and_vals, "ok", 0, "")
               /\ pc' = pc
    /\ UNCHANGED db_frame

\* DatabaseVector::pop
Pop ==
    /\ pc = "db"
    /\ IF len(db) = 0
       THEN /\ returned' = Call("pop", 0, 0, <<>>, "None", 0, "")
            /\ UNCHANGED <<db, pc>>
       ELSE IF ~db_has(db, serialize_index(len(db) - 1))
       THEN Panic("pop", 0, 0, <<>>, "called Option::unwrap() on a None value")
       ELSE /\ db' = set_length(delete(db, len(db) - 1), len(db) - 1)
            /\ returned' = Call("pop", 0, 0, <<>>, "Some",
                                deserialize(db[serialize_index(len(db) - 1)]), "")
            /\ pc' = pc
    /\ UNCHANGED db_frame

\* DatabaseVector::push
Push ==
    /\ pc = "db"
    /\ len(db) < MaxDbLen
    /\ \E value \in DbValues :
          /\ db' = set_length(db_put(db, serialize_index(len(db)), serialize_value(value)),
                              len(db) + 1)
          /\ returned' = Call("push", 0, value, <<>>, "ok", 0, "")
    /\ pc' = pc
    /\ UNCHANGED db_frame

\* push stopped between its two writes: the element is stored, the length is not
PushStopped ==
    /\ pc = "db"
    /\ len(db) < MaxDbLen
    /\ \E value \in DbValues :
          /\ db' = db_put(db, serialize_index(len(db)), serialize_value(value))
          /\ returned' = Call("push_stopped", 0, value, <<>>, "stopped", 0, "")
    /\ pc' = "db_stopped"
    /\ UNCHANGED db_frame

\* pop stopped between its two writes: the element is deleted, the length is not
\* yet lowered
PopStopped ==
    /\ pc = "db"
    /\ len(db) > 0
    /\ db_has(db, serialize_index(len(db) - 1))
    /\ db' = delete(db, len(db) - 1)
    /\ returned' = Call("pop_stopped", 0, 0, <<>>, "stopped", 0, "")
    /\ pc' = "db_stopped"
    /\ UNCHANGED db_frame

\* DatabaseVector::restore setting the length as new does
Restore_reset ==
    /\ pc \in {"db_opened", "db", "db_stopped"}
    /\ IF ~db_has(db, LENGTH_KEY)
       THEN Panic("restore", 0, 0, <<>>, "Length must exist")
       ELSE /\ db' = set_length(db, 0)
            /\ returned' = Call("restore", 0, 0, <<>>, "ok", 0, "")
            /\ pc' = IF pc = "db_stopped" THEN "db_restored" ELSE "db"
    /\ UNCHANGED db_frame

\* DatabaseVector::restore on the database of a vector (extract_db), of a vector
\* whose push or pop was stopped, or on a database no vector was created in
Restore ==
    /\ pc \in {"db_opened", "db", "db_stopped"}
    /\ IF ~db_has(db, LENGTH_KEY)
       THEN Panic("restore", 0, 0, <<>>, "Length must exist")
       ELSE /\ db' = db
            /\ returned' = Call("restore", 0, 0, <<>>, "ok", len(db), "")
            /\ pc' = IF pc = "db_stopped" THEN "db_restored" ELSE "db"
    /\ UNCHANGED db_frame

NextDb ==
    \/ New
    \/ Get
    \/ Set
    \/ BatchSet
    \/ Pop
    \/ Push
    \/ PushStopped
    \/ PopStopped
    \/ Restore

SpecDb == InitDb /\ [][NextDb]_vars

\* the vector as an in-memory sequence: get(i) for every i < len()
Contents(d) == [i \in 1..len(d) |-> deserialize(d[serialize_index(i - 1)])]

\* C18: a DatabaseVector created by new behaves as an in-memory sequence: new
\* gives the empty sequence, push appends, pop returns None on the empty vector
\* and otherwise returns and removes the last element, an in-range set replaces
\* one element and leaves the length (also at index 0), get(i) returns the
\* element i.
C18_InMemorySequence ==
    [][/\ returned'.call = "new" /\ returned'.kind = "ok" => Contents(db') = <<>>
       /\ returned'.call = "push" =>
             Contents(db') = Append(Contents(db), returned'.value)
       /\ returned'.call = "pop" =>
             IF Contents(db) = <<>>
             THEN returned'.kind = "None" /\ Contents(db') = <<>>
             ELSE /\ returned'.kind = "Some"
                  /\ returned'.out = Contents(db)[Len(Contents(db))]
                  /\ Contents(db') = SubSeq(Contents(db), 1, Len(Contents(db)) - 1)
       /\ (returned'.call = "set" /\ returned'.index < len(db)) =>
             /\ returned'.kind = "ok"
             /\ len(db') = len(db)
             /\ Contents(db') =
                   [Contents(db) EXCEPT ![returned'.index + 1] = returned'.value]
       /\ (returned'.call = "get" /\ returned'.index < len(db)) =>
             /\ returned'.kind = "ok"
             /\ returned'.out = Contents(db)[returned'.index + 1]
             /\ db' = db]_vars

\* two elements were pushed, the element at index 0 was set, and the last
\* element was popped
C18_Witness ==
    /\ pc = "db"
    /\ returned.call = "pop"
    /\ returned.kind = "Some"
    /\ returned.out = 300
    /\ Contents(db) = <<17>>
    /\ DOMAIN db = {LENGTH_KEY, serialize_index(0)}

\* C19: get(i) and set(i, v) with i >= len() panic with 'Cannot get / set
\* outside of length', and no element at an index >= len is ever stored.
C19_OutOfRangePanics ==
    pc \in {"db", "db_panicked"} =>
        /\ \A key \in DOMAIN db : key = LENGTH_KEY \/ deserialize(key) < len(db)
        /\ (returned.call \in {"get", "set"} /\ returned.kind = "ok") =>
              returned.index < len(db)
        /\ (returned.call = "get" /\ returned.kind = "panic") =>
              returned.message = "Cannot get outside of length"
        /\ (returned.call = "set" /\ returned.kind = "panic") =>
              returned.message = "Cannot set outside of length"

\* the value listed last for an index among the pairs
RECURSIVE LastListed(_, _, _)
LastListed(indices_and_vals, index, k) ==
    IF indices_and_vals[k][1] = index THEN indices_and_vals[k][2]
    ELSE LastListed(indices_and_vals, index, k - 1)

Listed(indices_and_vals, index) ==
    \E k \in 1..Len(indices_and_vals) : indices_and_vals[k][1] = index

\* C20: batch_set panics without writing anything if a listed index is >= len();
\* otherwise every listed index holds the value listed last for it, and every
\* other index and the length are unchanged.
C20_BatchSet ==
    [][returned'.call = "batch_set" =>
          IF \E k \in 1..Len(returned'.pairs) : returned'.pairs[k][1] >= len(db)
          THEN returned'.kind = "panic" /\ db' = db
          ELSE /\ returned'.kind = "ok"
               /\ DOMAIN db' = DOMAIN db
               /\ len(db') = len(db)
               /\ \A i \in 1..len(db) :
                     Contents(db')[i] =
                        IF Listed(returned'.pairs, i - 1)
                        THEN LastListed(returned'.pairs, i - 1, Len(returned'.pairs))
                        ELSE Contents(db)[i]]_vars

\* an index was listed twice with two values, and holds the second
C20_Witness ==
    /\ pc = "db"
    /\ returned.call = "batch_set"
    /\ returned.kind = "ok"
    /\ returned.pairs = <<<<1, 300>>, <<1, 17>>>>
    /\ Contents(db) = <<300, 17>>

-----------------------------------------------------------------------------
(* Fri::num_rounds called by itself, and the assertion sample_indices makes  *)
(* on its result                                                             *)

ParamDomainLengths == {Pow2(k) : k \in 1..MaxParamLogN}

\* a Fri object with powers of two N >= rho >= 2 and 1 <= q <= N
InitParams ==
    /\ domain_length \in ParamDomainLengths
    /\ expansion_factor \in ExpansionFactors(domain_length)
    /\ colinearity_checks_count \in 1..domain_length
    /\ rounds = <<>>
    /\ poly = <<>>
    /\ codeword = <<>>
    /\ pc = "params"
    /\ tamper = "none"
    /\ tampered_at = 0
    /\ ProverIdle
    /\ VerifierIdle
    /\ SampleIdle
    /\ DomainIdle
    /\ DatabaseIdle

\* let (num_rounds, max_degree_of_last_round) = self.num_rounds()
CallNumRounds ==
    /\ pc = "params"
    /\ rounds' = num_rounds(domain_length, expansion_factor, colinearity_checks_count)
    /\ pc' = "params_rounds"
    /\ UNCHANGED <<domain_length, expansion_factor, colinearity_checks_count,
                   input_vars, items, read_index, tamper, tampered_at, prover_vars,
                   verifier_vars, aside_vars>>

\* assert!(self.colinearity_checks_count <= last_codeword_length, ..)
AssertLastCodewordLength ==
    /\ pc = "params_rounds"
    /\ pc' = IF colinearity_checks_count <= domain_length \div Pow2(rounds[1])
             THEN "params_asserted"
             ELSE "params_panicked"
    /\ UNCHANGED <<fri_vars, input_vars, items, read_index, tamper, tampered_at,
                   prover_vars, verifier_vars, aside_vars>>

NextParams ==
    \/ CallNumRounds
    \/ AssertLastCodewordLength

SpecParams == InitParams /\ [][NextParams]_vars

\* num_rounds has returned
RoundsReturned == pc \in {"params_rounds", "params_asserted", "params_panicked"}

\* C26: for powers of two N >= rho >= 2 and 1 <= q <= N, num_rounds returns
\* 0 <= R <= log2(N / rho) (the subtraction on 8 bits does not wrap), the last
\* codeword length N / 2^R is >= q, and the assertion of sample_indices does
\* not fire.
C26_RoundsInRange ==
    /\ RoundsReturned =>
          /\ rounds[1] >= 0
          /\ rounds[1] <= log_2_floor(domain_length \div expansion_factor)
          /\ domain_length \div Pow2(rounds[1]) >= colinearity_checks_count
    /\ pc # "params_panicked"

\* as many checks as the domain has points: every round is missed, and the
\* assertion passed
C26_Witness ==
    /\ pc = "params_asserted"
    /\ domain_length = 64
    /\ expansion_factor = 2
    /\ colinearity_checks_count = 64
    /\ rounds = <<0, 31>>

\* C27: for powers of two N >= rho >= 2 and 1 <= q <= N, the (R, delta) returned
\* by num_rounds satisfies (delta + 1) * 2^R = N / rho.
C27_DegreeBound ==
    RoundsReturned =>
        (rounds[2] + 1) * Pow2(rounds[1]) = domain_length \div expansion_factor

\* two rounds are missed of six
C27_Witness ==
    /\ RoundsReturned
    /\ domain_length = 256
    /\ expansion_factor = 4
    /\ colinearity_checks_count = 13
    /\ rounds = <<4, 3>>
    /\ (rounds[2] + 1) * Pow2(rounds[1]) = 64

\* C21: restoring a DatabaseVector from the database of a vector reached by
\* push, pop and set gives a vector with the same len() and the same get(i) for
\* every i < len, and leaves the database as it is.
C21_RestoreRoundTrip ==
    [][(pc = "db" /\ returned'.call = "restore") =>
          /\ returned'.kind = "ok"
          /\ pc' = "db"
          /\ db' = db
          /\ returned'.out = len(db)
          /\ len(db') = len(db)
          /\ Contents(db') = Contents(db)]_vars

\* a vector of two elements was restored
C21_Witness ==
    /\ pc = "db"
    /\ returned.call = "restore"
    /\ returned.kind = "ok"
    /\ returned.out = 2
    /\ Contents(db) = <<17, 300>>

\* C29: after every single write of push and pop, every index below the stored
\* length holds a stored element, so that get(i) succeeds for every i < len() on
\* the restored vector.
C29_CrashConsistency ==
    pc \in {"db", "db_stopped", "db_restored"} =>
        \A i \in 0..(len(db) - 1) : db_has(db, serialize_index(i))

====
